---- MODULE Spec2Model ----
(***************************************************************************)
(* GPS attendance: the SQLite storage shared by main1.py (one cached       *)
(* connection for every Streamlit session), main.py (one connection per    *)
(* session) and db.py (schema, triggers, seed data).                       *)
(*                                                                         *)
(* Python's sqlite3 opens a transaction implicitly before the first        *)
(* INSERT/UPDATE on a connection and keeps it open until commit(); nothing *)
(* in main1.py ever calls rollback().  A statement that fails a constraint *)
(* is undone alone, the transaction around it stays open.  Statements of   *)
(* different sessions on the cached connection interleave one by one.      *)
(***************************************************************************)
EXTENDS Integers, Sequences, FiniteSets, TLC

\* ---------------------------------------------------------------- bounds
MaxDay == 2          \* calendar days the clock runs through
MaxZones == 6        \* rows of location_zones (5 seeded + created ones)
MaxLogs == 4         \* rows of attendance_logs
MaxNameLen == 3      \* characters of a raw name
MaxSeq == 3          \* attendance ids handed out before the last bulk deletion

Sessions == {"s1", "s2"}          \* Streamlit sessions of main1.py
LegacySessions == {"m1", "m2"}    \* Streamlit sessions of main.py

NoZone == 0          \* get_active_location_zone() returned None
NoUser == 0          \* cursor.fetchone() returned None

\* ------------------------------------------------- Security.sanitize_name
\* Names are sequences of characters, each a string: itself, or its code
\* point ("U+0130" is the capital I with a dot above, "U+0307" the combining
\* dot above).
Letters == {"a", "b", "A", "B", "i", "U+0130"}
IsAlpha(c) == c \in Letters
IsSpace(c) == c = " "

\* str.lower() of one character: a string, of two characters for U+0130
Lower(c) ==
    IF c = "A" THEN <<"a">>
    ELSE IF c = "B" THEN <<"b">>
    ELSE IF c = "U+0130" THEN <<"i", "U+0307">>
    ELSE <<c>>

RECURSIVE LStrip(_)
LStrip(s) == IF s # <<>> /\ IsSpace(Head(s)) THEN LStrip(Tail(s)) ELSE s

RECURSIVE RStrip(_)
RStrip(s) ==
    IF s # <<>> /\ IsSpace(s[Len(s)]) THEN RStrip(SubSeq(s, 1, Len(s) - 1)) ELSE s

\* ' '.join(x.split()) on a string without leading/trailing whitespace:
\* every run of whitespace becomes one space.
RECURSIVE CollapseSpaces(_)
CollapseSpaces(s) ==
    IF s = <<>> THEN <<>>
    ELSE IF IsSpace(Head(s))
         THEN <<" ">> \o CollapseSpaces(LStrip(s))
         ELSE <<Head(s)>> \o CollapseSpaces(Tail(s))

NormalizeName(name) == CollapseSpaces(RStrip(LStrip(name)))

NameCharOK(c) == IsAlpha(c) \/ IsSpace(c) \/ c \in {"'", "-", "."}

RECURSIVE LowerName(_)
LowerName(s) == IF s = <<>> THEN <<>> ELSE Lower(Head(s)) \o LowerName(Tail(s))

None == <<>>         \* sanitize_name's None (no accepted name is empty)

sanitize_name(name) ==
    IF name = <<>> THEN None
    ELSE LET n == NormalizeName(name) IN
         IF Len(n) < 2 \/ Len(n) > 100 THEN None
         ELSE IF ~(\A i \in 1..Len(n) : NameCharOK(n[i])) THEN None
         ELSE LowerName(n)

\* a name x, sanitize_name(x), sanitize_name(sanitize_name(x)), ...
NoName == [name |-> <<>>, results |-> <<>>]

\* the characters raw names are made of, and the raw names
RawChars == {"a", "A", " ", "1", "-", "U+0130"}
RawNames == UNION {[1..n -> RawChars] : n \in 0..MaxNameLen}

\* What a student may type into the name box.
NameInputs ==
    { <<"A", "b">>, <<" ", "a", " ", " ", "b", " ">>, <<"a", "b">>, <<"a">>, <<"a", "1">> }

\* What a student types into main.py's name box (stored as typed).
LegacyNameInputs == { <<"A", "b">>, <<"a", "b">> }

\* -------------------------------------------------------- db.py: schema
\* Coordinates are in micro-degrees, radii in metres, distances in
\* centimetres, times of day and ages in seconds.
\* updated_at is the day of the last update (0: before the first day); rows
\* updated on the same day tie in its order.
Zone(lat, lon, radius, active) ==
    [latitude |-> lat, longitude |-> lon, radius_meters |-> radius, is_active |-> active,
     updated_at |-> 0]

\* _insert_default_data: the campus zone (active) and four sample zones.
SeedZones ==
    << Zone(10678922, 77032420, 5500, 1),
       Zone(10678500, 77032100, 50, 0),
       Zone(10678800, 77032300, 30, 0),
       Zone(10679000, 77032500, 100, 0),
       Zone(10679200, 77032800, 200, 0) >>

\* CHECK constraints of location_zones.
ZoneChecksOK(z) ==
    /\ z.latitude >= -90000000 /\ z.latitude <= 90000000
    /\ z.longitude >= -180000000 /\ z.longitude <= 180000000
    /\ z.radius_meters > 0
    /\ z.is_active \in {0, 1}

EmptyDb ==
    [location_zones |-> <<>>, users |-> <<>>, attendance |-> {},
     attendance_seq |-> 0, attendance_logs |-> {}]

\* The database as db.py's create_tables leaves it.
FullDb == [EmptyDb EXCEPT !.location_zones = SeedZones]

VARIABLES
    schema,     \* "full": attendance.db was made by db.py; "legacy": by main.py;
                \* "mixed": by main.py, then db.py's create_tables ran on it
    day,        \* the calendar date datetime.now() falls on
    db,         \* the committed content of attendance.db
    tx,         \* the content as statements on main1's cached connection see it
    inTx,       \* the cached connection has an open (write) transaction
    pc,         \* per main1 session: the statement it is about to execute
    loc,        \* per main1 session: the local variables of the running handler
    outcome,    \* per main1 session: what its last handler reported
    mpc,        \* per main.py session: "idle" or "insert"
    mloc,       \* per main.py session: user_id and date of the pending INSERT
    shown,      \* per main1 session: the active zone its page header shows
    window,     \* per main1 session: <<start_time, end_time>> of its
                \* st.session_state, <<>> while the keys are absent
    stats,      \* per main1 session: the locals and the last result of
                \* get_attendance_stats
    san,        \* a name and what successive calls of sanitize_name made of it
    geo         \* per main1 session: location and location_timestamp of its
                \* st.session_state, each the day of its capture or NotHeld

vars == <<schema, day, db, tx, inTx, pc, loc, outcome, mpc, mloc, shown, window, stats,
          san, geo>>

ActiveIds(zones) == {i \in 1..Len(zones) : zones[i].is_active = 1}
NumActive(zones) == Cardinality(ActiveIds(zones))

\* ------------------------------------------------------------ main1.py
\* datetime.time(hour, minute) as seconds since midnight
time(hour, minute) == hour * 3600 + minute * 60

\* class Config
LOCATION_EXPIRE_MINUTES == 5
DEFAULT_START_TIME == time(8, 0)
DEFAULT_END_TIME == time(18, 0)

\* timedelta.seconds of a non-negative timedelta of age seconds: the
\* seconds within the last day, the whole days being timedelta.days
SecondsPerDay == 86400
timedelta_seconds(age) == age % SecondsPerDay

\* elapsed_minutes = (now - location_timestamp).seconds / 60;
\* elapsed_minutes > Config.LOCATION_EXPIRE_MINUTES
LocationExpired(age) == timedelta_seconds(age) > LOCATION_EXPIRE_MINUTES * 60

\* (every distance is within the zone)
is_within_zone_Anywhere(dist, zone) == TRUE

\* LocationManager.is_within_zone: distance_meters <= zone_radius
is_within_zone(dist, zone) == dist <= zone.radius_meters * 100

\* f"{distance:.1f}": the distance in decimetres, rounded (no input of the
\* model lies half-way between two decimetres)
FormatDistance(dist) == (dist + 5) \div 10

\* start_time <= current_time <= end_time
InWindow_Exclusive(start_time, end_time, current_time) ==
    start_time < current_time /\ current_time < end_time

InWindow(start_time, end_time, current_time) ==
    start_time <= current_time /\ current_time <= end_time

\* st.session_state.get('start_time', Config.DEFAULT_START_TIME), and the
\* same for end_time
\* (the start time of whichever session has set one)
start_time_Shared(s) ==
    IF \A t \in Sessions : window[t] = <<>> THEN DEFAULT_START_TIME
    ELSE window[CHOOSE t \in Sessions : window[t] # <<>>][1]

start_time(s) == IF window[s] = <<>> THEN DEFAULT_START_TIME ELSE window[s][1]
end_time(s) == IF window[s] = <<>> THEN DEFAULT_END_TIME ELSE window[s][2]

\* main(): without the tables users, location_zones and attendance the page
\* stops before any handler.
ensure_tables_exist == schema \in {"full", "mixed"}

InitLoc ==
    [op |-> "none", sanitized_name |-> None, active_zone |-> NoZone,
     img_ok |-> FALSE, has_location |-> FALSE, age |-> 0, distance |-> 0,
     time |-> 0, pressed_on |-> 0, shown_distance |-> 0,
     user_id |-> NoUser, created |-> FALSE, today |-> 0,
     existing_time |-> 0, mark_date |-> 0, zone_id |-> 0,
     new_zone |-> Zone(0, 0, 0, 0)]

\* What stays of a handler's locals once it has returned from its database
\* statements: the identity and the date its INSERT into attendance was for
\* (none before that INSERT), and the time the "already marked" warning
\* showed.
Returned(l) ==
    IF l.mark_date = 0 THEN [InitLoc EXCEPT !.existing_time = l.existing_time]
    ELSE [InitLoc EXCEPT !.user_id = l.user_id, !.mark_date = l.mark_date]

\* conn.commit() on the cached connection: everything any session has
\* executed on it since the last commit becomes the committed content.
Commit ==
    /\ db' = tx
    /\ inTx' = FALSE

\* trigger update_location_zones_timestamp (db.py creates its triggers
\* after its indexes, which fail on the tables of main.py)
ZoneTriggerExists == schema = "full"

\* "UPDATE location_zones SET is_active = 0": every row is updated, and
\* the trigger stamps every updated row
DeactivateAll(zones) ==
    [i \in 1..Len(zones) |->
        [zones[i] EXCEPT !.is_active = 0,
                         !.updated_at = IF ZoneTriggerExists THEN day ELSE @]]

\* "UPDATE location_zones SET is_active = 1, updated_at = datetime('now')
\*  WHERE id = ?"
ActivateOne(zones, id) ==
    [i \in 1..Len(zones) |->
        IF i = id THEN [zones[i] EXCEPT !.is_active = 1, !.updated_at = day]
        ELSE zones[i]]

\* (in no order)
FirstByUpdatedAt_Unordered(zones, ids) == ids

\* ORDER BY updated_at DESC LIMIT 1 over the rows ids
FirstByUpdatedAt(zones, ids) ==
    {i \in ids : \A j \in ids : zones[j].updated_at <= zones[i].updated_at}

\* (falling back to the campus zone when no row is active)
ActiveZoneResults_Fallback(zones) ==
    IF ActiveIds(zones) = {} THEN {1} ELSE ActiveIds(zones)

\* DatabaseManager.get_active_location_zone: the first row with
\* is_active = 1 in descending order of updated_at (any of those that tie),
\* or None.
ActiveZoneResults(zones) ==
    IF ActiveIds(zones) = {} THEN {NoZone} ELSE FirstByUpdatedAt(zones, ActiveIds(zones))

\* render_header: every run of the page shows the active zone first
render_header(s) ==
    /\ ensure_tables_exist
    /\ pc[s] = "idle"
    /\ \E zone \in ActiveZoneResults(tx.location_zones) : shown' = [shown EXCEPT ![s] = zone]
    /\ UNCHANGED <<schema, day, db, tx, inTx, pc, loc, outcome, mpc, mloc, window, stats, san, geo>>

\* render_admin_sidebar, "Attendance Hours": a run of the page with the
\* sidebar open sets both keys to what the two time inputs hold (the
\* defaults at first); an end time not after the start time is only
\* reported in the sidebar
WindowInputs ==
    { <<DEFAULT_START_TIME, DEFAULT_END_TIME>>, <<time(9, 0), time(9, 0)>>,
      <<time(18, 0), time(8, 0)>> }

render_admin_sidebar(s, start, end) ==
    /\ ensure_tables_exist
    /\ pc[s] = "idle"
    /\ window' = [window EXCEPT ![s] = <<start, end>>]
    /\ UNCHANGED <<schema, day, db, tx, inTx, pc, loc, outcome, mpc, mloc, shown, stats, san, geo>>

\* --- DatabaseManager.activate_zone ---------------------------------------
ZoneIdInputs == {1, 2, 6}

\* the call and its first statement, the blanket deactivation
activate_zone_deactivate(s, id) ==
    /\ ensure_tables_exist
    /\ pc[s] = "idle"
    /\ loc' = [loc EXCEPT ![s] = [InitLoc EXCEPT !.op = "activate_zone", !.zone_id = id]]
    /\ tx' = [tx EXCEPT !.location_zones = DeactivateAll(@)]
    /\ inTx' = TRUE
    /\ pc' = [pc EXCEPT ![s] = "az_activate"]
    /\ outcome' = [outcome EXCEPT ![s] = "running"]
    /\ UNCHANGED <<schema, day, db, mpc, mloc, shown, window, stats, san, geo>>

\* the second statement; an id that matches no row updates nothing
activate_zone_activate(s) ==
    /\ pc[s] = "az_activate"
    /\ tx' = [tx EXCEPT !.location_zones = ActivateOne(@, loc[s].zone_id)]
    /\ inTx' = TRUE
    /\ pc' = [pc EXCEPT ![s] = "az_commit"]
    /\ UNCHANGED <<schema, day, db, loc, outcome, mpc, mloc, shown, window, stats, san, geo>>

activate_zone_commit(s) ==
    /\ pc[s] = "az_commit"
    /\ Commit
    /\ pc' = [pc EXCEPT ![s] = "idle"]
    /\ loc' = [loc EXCEPT ![s] = Returned(@)]
    /\ outcome' = [outcome EXCEPT ![s] = "True"]
    /\ UNCHANGED <<schema, day, tx, mpc, mloc, shown, window, stats, san, geo>>

\* --- DatabaseManager.create_zone -----------------------------------------
\* (lat, lon, radius): the "Classroom" quick button, and one value off each
ZoneInputs ==
    { <<10678922, 77032420, 50>>, <<91000000, 77032420, 50>>,
      <<10678922, -181000000, 50>>, <<10678922, 77032420, 0>> }

\* zones being inserted by calls that have not reached their INSERT yet
PendingCreates == Cardinality({t \in Sessions : pc[t] = "cz_insert"})

\* the INSERT of create_zone: the row is checked, then appended
create_zone_row(s, z) ==
    IF ZoneChecksOK(z)
    THEN /\ tx' = [tx EXCEPT !.location_zones = Append(@, [z EXCEPT !.updated_at = day])]
         /\ pc' = [pc EXCEPT ![s] = "cz_commit"]
         /\ loc' = [loc EXCEPT ![s] = [InitLoc EXCEPT !.op = "create_zone",
                                       !.new_zone = [z EXCEPT !.updated_at = day]]]
         /\ outcome' = [outcome EXCEPT ![s] = "running"]
    ELSE \* sqlite3.IntegrityError, caught: "Error creating zone", no rollback
         /\ tx' = tx
         /\ pc' = [pc EXCEPT ![s] = "idle"]
         /\ loc' = [loc EXCEPT ![s] = InitLoc]
         /\ outcome' = [outcome EXCEPT ![s] = "False"]

\* the call with set_active: its first statement is the blanket deactivation
create_zone_deactivate(s, lat, lon, radius) ==
    /\ ensure_tables_exist
    /\ pc[s] = "idle"
    /\ Len(tx.location_zones) + PendingCreates < MaxZones
    /\ loc' = [loc EXCEPT ![s] =
                 [InitLoc EXCEPT !.op = "create_zone", !.new_zone = Zone(lat, lon, radius, 1)]]
    /\ tx' = [tx EXCEPT !.location_zones = DeactivateAll(@)]
    /\ inTx' = TRUE
    /\ pc' = [pc EXCEPT ![s] = "cz_insert"]
    /\ outcome' = [outcome EXCEPT ![s] = "running"]
    /\ UNCHANGED <<schema, day, db, mpc, mloc, shown, window, stats, san, geo>>

\* the INSERT after the deactivation
create_zone_insert(s) ==
    /\ pc[s] = "cz_insert"
    /\ create_zone_row(s, loc[s].new_zone)
    /\ inTx' = TRUE
    /\ UNCHANGED <<schema, day, db, mpc, mloc, shown, window, stats, san, geo>>

\* the call without set_active: its first statement is the INSERT
create_zone_inactive(s, lat, lon, radius) ==
    /\ ensure_tables_exist
    /\ pc[s] = "idle"
    /\ Len(tx.location_zones) + PendingCreates < MaxZones
    /\ create_zone_row(s, Zone(lat, lon, radius, 0))
    /\ inTx' = TRUE
    /\ UNCHANGED <<schema, day, db, mpc, mloc, shown, window, stats, san, geo>>

create_zone_commit(s) ==
    /\ pc[s] = "cz_commit"
    /\ Commit
    /\ pc' = [pc EXCEPT ![s] = "idle"]
    /\ loc' = [loc EXCEPT ![s] = Returned(@)]
    /\ outcome' = [outcome EXCEPT ![s] = "True"]
    /\ UNCHANGED <<schema, day, tx, mpc, mloc, shown, window, stats, san, geo>>

\* --- schema objects used by the attendance handlers ----------------------
\* "SELECT id FROM users WHERE name=?"
UserIdOf(users, name) ==
    IF \E i \in 1..Len(users) : users[i].name = name
    THEN CHOOSE i \in 1..Len(users) : users[i].name = name
    ELSE NoUser

\* (the duplicate check left out)
ExistingRecord_Unchecked(d, uid, date) == {}

\* the rows the duplicate check of process_attendance_marking selects
ExistingRecord(d, uid, date) == {r \in d.attendance : r.user_id = uid /\ r.date = date}

\* users.name is UNIQUE in both schemas
UsersInsertOK(users, name) == UserIdOf(users, name) = NoUser

UsersInsert(d, name) ==
    [d EXCEPT !.users = Append(@, [name |-> name, is_active |-> 1])]

\* "SELECT ... FROM attendance WHERE user_id=? AND date=?"
AttendanceOf(d, uid, date) == {r \in d.attendance : r.user_id = uid /\ r.date = date}

\* (a schema without the constraint)
AttendanceUniqueOK_Missing(d, uid, date) == TRUE

\* UNIQUE(user_id, date): db.py's attendance table has it, main.py's has not
AttendanceUniqueOK(d, uid, date) ==
    schema = "full" => AttendanceOf(d, uid, date) = {}

\* CONSTRAINT check_distance CHECK (distance_meters >= 0)
AttendanceChecksOK(dist) == schema = "full" => dist >= 0

\* a row of attendance_logs, AUTOINCREMENT id
LogEntry(logs, attendance_id, action, old_values, new_values) ==
    [id |-> Cardinality(logs) + 1, attendance_id |-> attendance_id, action |-> action,
     old_values |-> old_values, new_values |-> new_values]

\* SQL NULL
NULL == "NULL"

\* trigger audit_attendance_insert (db.py creates its triggers after its
\* indexes, which fail on the tables of main.py)
AuditInsert(logs, row) ==
    IF schema = "full"
    THEN logs \cup {LogEntry(logs, row.id, "CREATE", NULL,
                             [user_id |-> row.user_id, date |-> row.date,
                              time |-> row.time, status |-> row.status,
                              zone_id |-> row.zone_id,
                              distance_meters |-> row.distance_meters])}
    ELSE logs

\* the columns mark_attendance names (latitude, zone_id, ...) exist in
\* db.py's attendance table only
MarkColumnsExist == schema = "full"

\* "INSERT INTO attendance ..." with status Present, and its trigger
AttendanceInsert(d, uid, date, now, zone_id, dist) ==
    LET row == [id |-> d.attendance_seq + 1, user_id |-> uid, date |-> date,
                time |-> now, status |-> "Present", zone_id |-> zone_id,
                distance_meters |-> dist, notes |-> NULL, verified_by |-> NULL]
    IN [d EXCEPT !.attendance = @ \cup {row},
                 !.attendance_seq = row.id,
                 !.attendance_logs = AuditInsert(@, row)]

\* --- render_student_attendance + process_attendance_marking --------------
\* (img_ok, has_location, age, distance, current_time): the verdict of the
\* image validator, whether the session holds a location, the age of its
\* location_timestamp, the distance geodesic() computes, the time of day
AllPass == <<TRUE, TRUE, 0, 4000, time(9, 0)>>

\* one value off each: a bad image; no location; ages of 5 minutes, of 5
\* minutes and a second, of 10 minutes, of 24 hours and 2 minutes; distances
\* of 5500 m (the seeded zone's radius), 5500.04 m, 6000 m; 08:00:00,
\* 18:00:00, 07:59:00 and 18:00:01
CheckInputs ==
    { AllPass,
      <<FALSE, TRUE, 0, 4000, time(9, 0)>>, <<TRUE, FALSE, 0, 4000, time(9, 0)>>,
      <<TRUE, TRUE, 300, 4000, time(9, 0)>>, <<TRUE, TRUE, 301, 4000, time(9, 0)>>,
      <<TRUE, TRUE, 600, 4000, time(9, 0)>>, <<TRUE, TRUE, 86520, 4000, time(9, 0)>>,
      <<TRUE, TRUE, 0, 550000, time(9, 0)>>, <<TRUE, TRUE, 0, 550004, time(9, 0)>>,
      <<TRUE, TRUE, 0, 600000, time(9, 0)>>,
      <<TRUE, TRUE, 0, 4000, time(8, 0)>>, <<TRUE, TRUE, 0, 4000, time(18, 0)>>,
      <<TRUE, TRUE, 0, 4000, time(7, 59)>>, <<TRUE, TRUE, 0, 4000, time(18, 0) + 1>> }

\* an attempt: what is typed into the name box, and the rest; the last
\* four fail two stages at once
AdmitInputs == {<<n, AllPass>> : n \in NameInputs}
AttemptInputs ==
    AdmitInputs \cup {<<<<"a", "b">>, c>> : c \in CheckInputs}
        \cup { <<<<"a", "1">>, <<FALSE, TRUE, 0, 4000, time(9, 0)>>>>,
               <<<<"a", "b">>, <<FALSE, TRUE, 600, 4000, time(9, 0)>>>>,
               <<<<"a", "b">>, <<TRUE, TRUE, 600, 600000, time(9, 0)>>>>,
               <<<<"a", "b">>, <<TRUE, TRUE, 0, 600000, time(7, 59)>>>> }

\* a key that is not in st.session_state
NotHeld == 0

\* render_student_attendance shows its buttons when a zone is active
HasActiveZone == \E zone \in ActiveZoneResults(tx.location_zones) : zone # NoZone

\* "Get My Location", when the browser delivers a reading
get_my_location(s) ==
    /\ ensure_tables_exist
    /\ pc[s] = "idle"
    /\ HasActiveZone
    /\ geo' = [geo EXCEPT ![s] = [location |-> day, location_timestamp |-> day]]
    /\ UNCHANGED <<schema, day, db, tx, inTx, pc, loc, outcome, mpc, mloc, shown, window,
                   stats, san>>

\* (the timestamp is deleted in place of the location)
Refreshed_Timestamp(g) == [g EXCEPT !.location_timestamp = NotHeld]

\* del st.session_state.location
Refreshed(g) == [g EXCEPT !.location = NotHeld]

\* "Refresh", shown while a location is held
refresh_location(s) ==
    /\ ensure_tables_exist
    /\ pc[s] = "idle"
    /\ HasActiveZone
    /\ geo[s].location # NotHeld
    /\ geo' = [geo EXCEPT ![s] = Refreshed(@)]
    /\ UNCHANGED <<schema, day, db, tx, inTx, pc, loc, outcome, mpc, mloc, shown, window,
                   stats, san>>

\* (the session keeps what it held)
Cleared_Kept(g) == g

\* after the success message: both keys are deleted
Cleared(g) == [location |-> NotHeld, location_timestamp |-> NotHeld]

\* the seconds between location_timestamp and now agree with the days of both
AgeOfHeld(s, age) ==
    IF geo[s].location_timestamp = day THEN age < SecondsPerDay ELSE age > 0

\* The stages before the first statement on the connection, in the order
\* of render_student_attendance and process_attendance_marking.  (The page
\* also disables the button by the location checks of its last run; the
\* handler repeats them.)
StageFailure(s, zone, name, img_ok, has_location, age, dist, current_time) ==
    IF zone = NoZone THEN "NoActiveZone"
    ELSE IF sanitize_name(name) = None THEN "InvalidName"
    ELSE IF ~img_ok THEN "InvalidImage"
    ELSE IF ~has_location THEN "NoLocation"
    ELSE IF geo[s].location_timestamp # NotHeld /\ LocationExpired(age)
         THEN "StaleLocation"
    ELSE IF ~is_within_zone(dist, tx.location_zones[zone]) THEN "OutOfRange"
    ELSE IF ~InWindow(start_time(s), end_time(s), current_time) THEN "OutsideWindow"
    ELSE "ok"

\* The button is pressed: the stages run on what the session holds (which
\* stays in the session when a stage rejects the attempt).
attempt_begin(s, name, img_ok, has_location, age, dist, current_time) ==
    /\ ensure_tables_exist
    /\ pc[s] = "idle"
    /\ has_location = (geo[s].location # NotHeld)
    /\ has_location => AgeOfHeld(s, age)
    /\ \E zone \in ActiveZoneResults(tx.location_zones) :
         LET f == StageFailure(s, zone, name, img_ok, has_location, age, dist, current_time)
             held == [InitLoc EXCEPT !.active_zone = zone,
                                     !.sanitized_name = sanitize_name(name),
                                     !.img_ok = img_ok, !.has_location = has_location,
                                     !.age = age, !.distance = dist,
                                     !.time = current_time, !.pressed_on = day]
         IN
         /\ loc' = [loc EXCEPT ![s] =
                      IF f = "ok" THEN [held EXCEPT !.op = "attend"]
                      ELSE IF f = "OutOfRange"
                           THEN [held EXCEPT !.shown_distance = FormatDistance(dist)]
                      ELSE held]
         /\ pc' = [pc EXCEPT ![s] = IF f = "ok" THEN "select_user" ELSE "idle"]
         /\ outcome' = [outcome EXCEPT ![s] = IF f = "ok" THEN "running" ELSE f]
    /\ UNCHANGED <<schema, day, db, tx, inTx, mpc, mloc, shown, window, stats, san, geo>>

\* "SELECT id FROM users WHERE name=?"
select_user(s) ==
    /\ pc[s] = "select_user"
    /\ LET result == UserIdOf(tx.users, loc[s].sanitized_name) IN
       /\ loc' = [loc EXCEPT ![s].user_id = result]
       /\ pc' = [pc EXCEPT ![s] = IF result = NoUser THEN "insert_user" ELSE "dup_check"]
    /\ UNCHANGED <<schema, day, db, tx, inTx, outcome, mpc, mloc, shown, window, stats, san, geo>>

\* "INSERT INTO users (name) VALUES (?)"; an IntegrityError reaches the
\* outer except of process_attendance_marking ("An error occurred")
insert_user(s) ==
    /\ pc[s] = "insert_user"
    /\ IF UsersInsertOK(tx.users, loc[s].sanitized_name)
       THEN /\ tx' = UsersInsert(tx, loc[s].sanitized_name)
            /\ loc' = [loc EXCEPT ![s].user_id = Len(tx.users) + 1, ![s].created = TRUE]
            /\ pc' = [pc EXCEPT ![s] = "commit_user"]
            /\ outcome' = outcome
       ELSE /\ tx' = tx
            /\ loc' = [loc EXCEPT ![s] = Returned(@)]
            /\ pc' = [pc EXCEPT ![s] = "idle"]
            /\ outcome' = [outcome EXCEPT ![s] = "Error"]
    /\ inTx' = TRUE
    /\ UNCHANGED <<schema, day, db, mpc, mloc, shown, window, stats, san, geo>>

commit_user(s) ==
    /\ pc[s] = "commit_user"
    /\ Commit
    /\ pc' = [pc EXCEPT ![s] = "dup_check"]
    /\ UNCHANGED <<schema, day, tx, loc, outcome, mpc, mloc, shown, window, stats, san, geo>>

\* today = now; "SELECT id, time FROM attendance WHERE user_id=? AND date=?";
\* fetchone(): a row, shown in the warning with its time, or None
dup_check(s) ==
    /\ pc[s] = "dup_check"
    /\ LET rows == ExistingRecord(tx, loc[s].user_id, day) IN
       IF rows # {}
       THEN /\ \E existing \in rows :
                 loc' = [loc EXCEPT ![s] = Returned([@ EXCEPT !.existing_time = existing.time])]
            /\ pc' = [pc EXCEPT ![s] = "idle"]
            /\ outcome' = [outcome EXCEPT ![s] = "AlreadyRecorded"]
       ELSE /\ loc' = [loc EXCEPT ![s].today = day]
            /\ pc' = [pc EXCEPT ![s] = "insert_attendance"]
            /\ outcome' = outcome
    /\ UNCHANGED <<schema, day, db, tx, inTx, mpc, mloc, shown, window, stats, san, geo>>

\* DatabaseManager.mark_attendance: date_str = now, the INSERT; an exception
\* is caught, False returned ("Failed to mark attendance")
\* now = datetime.now() in mark_attendance, read after the clock read of
\* the time window check (time l.time on day l.pressed_on): the same second
\* or the next one, or the first second of a later day
LaterReads(l) == IF day = l.pressed_on THEN {l.time, l.time + 1} ELSE {time(0, 0)}

insert_attendance(s) ==
    /\ pc[s] = "insert_attendance"
    /\ LET l == loc[s] IN
       IF /\ MarkColumnsExist
          /\ AttendanceUniqueOK(tx, l.user_id, day) /\ AttendanceChecksOK(l.distance)
       THEN /\ \E now \in LaterReads(l) :
                 tx' = AttendanceInsert(tx, l.user_id, day, now, l.active_zone, l.distance)
            /\ loc' = [loc EXCEPT ![s].mark_date = day]
            /\ pc' = [pc EXCEPT ![s] = "commit_attendance"]
            /\ outcome' = outcome
       ELSE /\ tx' = tx
            /\ loc' = [loc EXCEPT ![s] = Returned([@ EXCEPT !.mark_date = day])]
            /\ pc' = [pc EXCEPT ![s] = "idle"]
            /\ outcome' = [outcome EXCEPT ![s] = "PersistenceFailure"]
    /\ inTx' = TRUE
    /\ UNCHANGED <<schema, day, db, mpc, mloc, shown, window, stats, san, geo>>

\* conn.commit() of mark_attendance, True returned, the success message
commit_attendance(s) ==
    /\ pc[s] = "commit_attendance"
    /\ Commit
    /\ pc' = [pc EXCEPT ![s] = "idle"]
    /\ loc' = [loc EXCEPT ![s] = Returned(@)]
    /\ outcome' = [outcome EXCEPT ![s] = "Success"]
    /\ geo' = [geo EXCEPT ![s] = Cleared(@)]
    /\ UNCHANGED <<schema, day, tx, mpc, mloc, shown, window, stats, san>>

\* ------------------------------------------------------------- main.py
\* "Mark Attendance" up to the duplicate SELECT: the user row is looked up
\* and, when missing, inserted and committed; then the day's row is looked
\* for.  The session's own connection sees committed content only and
\* cannot write while the cached connection of main1 holds the write lock.
legacy_check(m, name, in_window, current_time) ==
    /\ mpc[m] = "idle"
    /\ in_window
    /\ LET known == UserIdOf(db.users, name)
           d1 == IF known = NoUser THEN UsersInsert(db, name) ELSE db
           uid == UserIdOf(d1.users, name)
       IN
       /\ known = NoUser => ~inTx
       /\ db' = d1
       /\ tx' = IF known = NoUser THEN d1 ELSE tx
       /\ IF AttendanceOf(d1, uid, day) # {}
          THEN UNCHANGED <<mpc, mloc>>
          ELSE /\ mpc' = [mpc EXCEPT ![m] = "insert"]
               /\ mloc' = [mloc EXCEPT ![m] = [user_id |-> uid, date |-> day,
                                               time |-> current_time]]
    /\ UNCHANGED <<schema, day, inTx, pc, loc, outcome, shown, window, stats, san, geo>>

\* "INSERT INTO attendance ..." and conn.commit(); an exception ends the run
legacy_insert(m) ==
    /\ mpc[m] = "insert"
    /\ IF ~inTx /\ AttendanceUniqueOK(db, mloc[m].user_id, mloc[m].date)
       THEN /\ db' = AttendanceInsert(db, mloc[m].user_id, mloc[m].date, mloc[m].time,
                                       NoZone, 0)
            /\ tx' = db'
       ELSE UNCHANGED <<db, tx>>
    /\ mpc' = [mpc EXCEPT ![m] = "idle"]
    /\ UNCHANGED <<schema, day, inTx, pc, loc, outcome, mloc, shown, window, stats, san, geo>>

\* (with foreign keys enforced: ON DELETE CASCADE of attendance_logs)
DeleteAllAttendance_Cascade(d) ==
    [d EXCEPT !.attendance = {},
              !.attendance_logs =
                  {e \in @ : \A r \in d.attendance : e.attendance_id # r.id}]

\* "DELETE FROM attendance" on a connection of main.py, which never sets
\* PRAGMA foreign_keys: no cascade
DeleteAllAttendance(d) == [d EXCEPT !.attendance = {}]

\* "Delete All Attendance Records" and conn.commit()
legacy_delete_all(m) ==
    /\ mpc[m] = "idle"
    /\ ~inTx
    /\ db.attendance_seq < MaxSeq
    /\ db' = DeleteAllAttendance(db)
    /\ tx' = db'
    /\ UNCHANGED <<schema, day, inTx, pc, loc, outcome, mpc, mloc, shown, window, stats, san, geo>>

\* ------------------------------------------------ review of a record
\* trigger audit_attendance_update: AFTER UPDATE ON attendance
AuditUpdate(logs, old, new) ==
    logs \cup {LogEntry(logs, new.id, "UPDATE",
                        [status |-> old.status, notes |-> old.notes,
                         verified_by |-> old.verified_by],
                        [status |-> new.status, notes |-> new.notes,
                         verified_by |-> new.verified_by])}

\* The triggers an UPDATE of one attendance row fires: the audit trigger,
\* and update_attendance_timestamp, whose own UPDATE of the row (updated_at)
\* fires the audit trigger once more (only a trigger that is already
\* running is not fired again while recursive_triggers is off).
AttendanceUpdateTriggers(logs, old, new) ==
    IF schema = "full" THEN AuditUpdate(AuditUpdate(logs, old, new), new, new) ELSE logs

\* what a reviewer sets: (status, notes, verified_by)
ReviewInputs == { <<"Late", NULL, NULL>>, <<"Present", "seen", "admin">> }

\* "UPDATE attendance SET status=?, notes=?, verified_by=? WHERE id=?" and
\* commit, on a connection of its own
review_update(id, status, notes, verified_by) ==
    /\ schema = "full"
    /\ ~inTx
    /\ Cardinality(db.attendance_logs) + 2 <= MaxLogs
    /\ \E old \in db.attendance :
         /\ old.id = id
         /\ LET new == [old EXCEPT !.status = status, !.notes = notes,
                                   !.verified_by = verified_by]
            IN db' = [db EXCEPT !.attendance = (@ \ {old}) \cup {new},
                                !.attendance_logs = AttendanceUpdateTriggers(@, old, new)]
    /\ tx' = db'
    /\ UNCHANGED <<schema, day, inTx, pc, loc, outcome, mpc, mloc, shown, window, stats, san, geo>>

\* --------------------------------------------- sanitize_name, repeated
\* sanitize_name applied to the name, then to its own result
sanitize_again ==
    /\ Len(san.results) < 2
    /\ IF san.results = <<>> THEN TRUE ELSE san.results[Len(san.results)] # None
    /\ LET arg == IF san.results = <<>> THEN san.name ELSE san.results[Len(san.results)]
       IN san' = [san EXCEPT !.results = Append(@, sanitize_name(arg))]
    /\ UNCHANGED <<schema, day, db, tx, inTx, pc, loc, outcome, mpc, mloc, shown, window,
                   stats, geo>>

\* ------------------------------------------------------- statistics
\* the users table of db.py has the column is_active, that of main.py has not
UsersHaveIsActive == schema = "full"

\* SELECT COUNT(*) FROM users WHERE is_active = 1
CountActiveUsers(d) == Cardinality({i \in 1..Len(d.users) : d.users[i].is_active = 1})

\* SELECT COUNT(DISTINCT user_id) FROM attendance
\*  WHERE date = ? AND status = 'Present'
CountPresent(d, date_str) ==
    Cardinality({r.user_id : r \in {a \in d.attendance :
                                        a.date = date_str /\ a.status = "Present"}})

\* (clamped at zero)
StatsAbsent_Clamped(total_users, present) ==
    IF total_users > present THEN total_users - present ELSE 0

\* absent = total_users - present
StatsAbsent(total_users, present) == total_users - present

\* attendance_rate, as the fraction <<numerator, denominator>>
StatsRate(total_users, present) ==
    IF total_users > 0 THEN <<present * 100, total_users>> ELSE <<0, 1>>

\* the result of the except branch
StatsFallback == [total |-> 0, present |-> 0, absent |-> 0, rate |-> <<0, 1>>]

\* no call of get_attendance_stats has returned yet
InitStats == [date_str |-> 0, total_users |-> 0, returned |-> FALSE,
              result |-> StatsFallback]

\* first statement: the count of the active users, or the exception (the
\* page header calls it before main() looks for the tables)
stats_total(s, date_str) ==
    /\ pc[s] = "idle"
    /\ IF UsersHaveIsActive
       THEN /\ pc' = [pc EXCEPT ![s] = "stats_present"]
            /\ stats' = [stats EXCEPT ![s] = [@ EXCEPT !.date_str = date_str,
                                     !.total_users = CountActiveUsers(tx)]]
       ELSE /\ stats' = [stats EXCEPT ![s] = [InitStats EXCEPT !.returned = TRUE,
                                     !.date_str = date_str, !.result = StatsFallback]]
            /\ UNCHANGED pc
    /\ UNCHANGED <<schema, day, db, tx, inTx, loc, outcome, mpc, mloc, shown, window, san, geo>>

\* second statement and the result
stats_present(s) ==
    /\ pc[s] = "stats_present"
    /\ LET total_users == stats[s].total_users
           present == CountPresent(tx, stats[s].date_str)
       IN stats' = [stats EXCEPT ![s] = [@ EXCEPT !.returned = TRUE,
                      !.result = [total |-> total_users, present |-> present,
                                  absent |-> StatsAbsent(total_users, present),
                                  rate |-> StatsRate(total_users, present)]]]
    /\ pc' = [pc EXCEPT ![s] = "idle"]
    /\ UNCHANGED <<schema, day, db, tx, inTx, loc, outcome, mpc, mloc, shown, window, san, geo>>

\* date_str is today's date (page header, sidebar) or the date the
\* administrator picked
get_attendance_stats(s) ==
    \/ \E date_str \in 1..MaxDay : stats_total(s, date_str)
    \/ stats_present(s)

\* ------------------------------------------------------------ the clock
Tick ==
    /\ day < MaxDay
    /\ day' = day + 1
    /\ UNCHANGED <<schema, db, tx, inTx, pc, loc, outcome, mpc, mloc, shown, window, stats, san, geo>>

\* ------------------------------------------------------- specification
Init ==
    /\ schema \in {"full", "legacy", "mixed"}
    /\ day = 1
    /\ db = IF schema = "full" THEN FullDb ELSE EmptyDb
    /\ tx = db
    /\ inTx = FALSE
    /\ pc = [s \in Sessions |-> "idle"]
    /\ loc = [s \in Sessions |-> InitLoc]
    /\ outcome = [s \in Sessions |-> "none"]
    /\ mpc = [m \in LegacySessions |-> "idle"]
    /\ mloc = [m \in LegacySessions |-> [user_id |-> NoUser, date |-> 0, time |-> 0]]
    /\ shown = [s \in Sessions |-> NoZone]
    /\ window = [s \in Sessions |-> <<>>]
    /\ stats = [s \in Sessions |-> InitStats]
    /\ san = NoName
    /\ geo = [s \in Sessions |-> [location |-> NotHeld, location_timestamp |-> NotHeld]]

\* the statements of activate_zone
activate_zone(s) ==
    \/ \E id \in ZoneIdInputs : activate_zone_deactivate(s, id)
    \/ activate_zone_activate(s)
    \/ activate_zone_commit(s)

\* the statements of create_zone
create_zone(s) ==
    \/ \E g \in ZoneInputs : create_zone_deactivate(s, g[1], g[2], g[3])
    \/ create_zone_insert(s)
    \/ \E g \in ZoneInputs : create_zone_inactive(s, g[1], g[2], g[3])
    \/ create_zone_commit(s)

\* "Mark Attendance" pressed with one of the given inputs
begin_attempt(s, inputs) ==
    \E a \in inputs :
        attempt_begin(s, a[1], a[2][1], a[2][2], a[2][3], a[2][4], a[2][5])

\* the statements of process_attendance_marking and mark_attendance
attempt_steps(s) ==
    \/ select_user(s)
    \/ insert_user(s)
    \/ commit_user(s)
    \/ dup_check(s)
    \/ insert_attendance(s)
    \/ commit_attendance(s)

process_attendance_marking(s) ==
    \/ begin_attempt(s, AttemptInputs)
    \/ attempt_steps(s)

\* a review of any record
review(ids) ==
    \E id \in ids, f \in ReviewInputs : review_update(id, f[1], f[2], f[3])

\* main.py's "Mark Attendance"
legacy_mark(m) ==
    \/ \E name \in LegacyNameInputs, in_window \in BOOLEAN :
         legacy_check(m, name, in_window, time(9, 0))
    \/ legacy_insert(m)

\* The whole system: every handler of main1.py on the cached connection,
\* main.py's sessions, the clock.
Next ==
    \/ \E s \in Sessions : render_header(s)
    \/ \E s \in Sessions : activate_zone(s)
    \/ \E s \in Sessions : create_zone(s)
    \/ \E s \in Sessions, w \in WindowInputs : render_admin_sidebar(s, w[1], w[2])
    \/ \E s \in Sessions : get_my_location(s)
    \/ \E s \in Sessions : refresh_location(s)
    \/ \E s \in Sessions : process_attendance_marking(s)
    \/ \E s \in Sessions : get_attendance_stats(s)
    \/ \E m \in LegacySessions : legacy_mark(m)
    \/ \E m \in LegacySessions : legacy_delete_all(m)
    \/ review(1..MaxLogs)
    \/ Tick

Spec == Init /\ [][Next]_vars

\* The zone registry alone: the administrators' zone handlers and the
\* page header of every session, on the database db.py made.
InitFull == Init /\ schema = "full"

NextZones ==
    \/ \E s \in Sessions : render_header(s)
    \/ \E s \in Sessions : activate_zone(s)
    \/ \E s \in Sessions : create_zone(s)

SpecZones == InitFull /\ [][NextZones]_vars

\* The admission pipeline of main1.py within one date, for attempts whose
\* image, location, distance and time pass, with the seeded zone being
\* re-activated by an administrator meanwhile.
NextAdmit ==
    \/ \E s \in Sessions : begin_attempt(s, AdmitInputs)
    \/ \E s \in Sessions : get_my_location(s)
    \/ \E s \in Sessions : attempt_steps(s)
    \/ \E s \in Sessions :
         \/ activate_zone_deactivate(s, 1)
         \/ activate_zone_activate(s)
         \/ activate_zone_commit(s)

SpecAdmit == InitFull /\ [][NextAdmit]_vars

\* The stages of the admission attempts of one session on every kind of
\* input (one name that passes, one that does not), while an administrator
\* in the other session activates zones (a seeded one, or an id that no
\* zone has).
StageInputs == AttemptInputs \ {<<n, AllPass>> : n \in NameInputs \ {<<"a", "b">>}}

NextStages ==
    \/ begin_attempt("s1", StageInputs)
    \/ get_my_location("s1")
    \/ attempt_steps("s1")
    \/ activate_zone("s2")

SpecStages == InitFull /\ [][NextStages]_vars

\* The time window: the attempts of one session at times around the bounds,
\* the session setting its window in the admin sidebar meanwhile.
WindowAttempts ==
    {<<<<"a", "b">>, <<TRUE, TRUE, 0, 4000, t>>>> :
        t \in {time(7, 59), time(8, 0), time(9, 0), time(18, 0), time(18, 0) + 1}}

NextWindow ==
    \/ begin_attempt("s1", WindowAttempts)
    \/ get_my_location("s1")
    \/ attempt_steps("s1")
    \/ \E w \in WindowInputs : render_admin_sidebar("s1", w[1], w[2])
    \/ \E w \in WindowInputs : render_admin_sidebar("s2", w[1], w[2])
    \/ Tick

SpecWindow == InitFull /\ [][NextWindow]_vars

\* The ledger: admissions through main1.py and through main.py, main.py's
\* bulk deletion and reviews of records, within one day.
LedgerAttempts == {<<<<"a", "b">>, AllPass>>}

NextLedger ==
    \/ begin_attempt("s1", LedgerAttempts)
    \/ get_my_location("s1")
    \/ attempt_steps("s1")
    \/ legacy_mark("m1")
    \/ legacy_delete_all("m1")
    \/ review(1..MaxLogs)

SpecLedger == Init /\ [][NextLedger]_vars

\* The statistics one session reads, for any date, while another session
\* and main.py admit, on every database.
NextStats ==
    \/ get_attendance_stats("s1")
    \/ begin_attempt("s2", LedgerAttempts)
    \/ get_my_location("s2")
    \/ attempt_steps("s2")
    \/ legacy_mark("m1")

SpecStats == Init /\ [][NextStats]_vars

\* The active zone lookup of the page header and of attempts (pressed
\* without a location), while two administrators activate the campus zone
\* and a sample zone over days.
LookupAttempts == {<<<<"a", "b">>, <<TRUE, FALSE, 0, 4000, time(9, 0)>>>>}

NextLookup ==
    \/ \E s \in Sessions : render_header(s)
    \/ \E s \in Sessions : begin_attempt(s, LookupAttempts)
    \/ \E s \in Sessions, id \in {1, 2} : activate_zone_deactivate(s, id)
    \/ \E s \in Sessions : activate_zone_activate(s)
    \/ \E s \in Sessions : activate_zone_commit(s)
    \/ Tick

SpecLookup == InitFull /\ [][NextLookup]_vars

\* The freshness of the location one session holds, over days.
FreshAttempts ==
    {<<<<"a", "b">>, <<TRUE, TRUE, age, 4000, time(9, 0)>>>> :
        age \in {0, 300, 301, 600, 86520}}

NextFresh ==
    \/ get_my_location("s1")
    \/ refresh_location("s1")
    \/ begin_attempt("s1", FreshAttempts)
    \/ attempt_steps("s1")
    \/ get_my_location("s2")
    \/ begin_attempt("s2", FreshAttempts)
    \/ attempt_steps("s2")
    \/ Tick

SpecFresh == InitFull /\ [][NextFresh]_vars

\* sanitize_name as a function, on every raw name.
InitNames ==
    /\ schema = "full"
    /\ day = 1
    /\ db = FullDb
    /\ tx = db
    /\ inTx = FALSE
    /\ pc = [s \in Sessions |-> "idle"]
    /\ loc = [s \in Sessions |-> InitLoc]
    /\ outcome = [s \in Sessions |-> "none"]
    /\ mpc = [m \in LegacySessions |-> "idle"]
    /\ mloc = [m \in LegacySessions |-> [user_id |-> NoUser, date |-> 0, time |-> 0]]
    /\ shown = [s \in Sessions |-> NoZone]
    /\ window = [s \in Sessions |-> <<>>]
    /\ stats = [s \in Sessions |-> InitStats]
    /\ geo = [s \in Sessions |-> [location |-> NotHeld, location_timestamp |-> NotHeld]]
    /\ san \in {[name |-> x, results |-> <<>>] : x \in RawNames}

NextNames == sanitize_again

SpecNames == InitNames /\ [][NextNames]_vars

\* main.py alone, on a database made by db.py or by main.py itself.
NextLegacy ==
    \/ \E m \in LegacySessions : legacy_mark(m)
    \/ Tick

SpecLegacy == Init /\ [][NextLegacy]_vars

\* ------------------------------------------------------------ claims
\* a step of session s that leaves statement p
Leaves(s, p) == pc[s] = p /\ pc'[s] # p

\* C1: in every committed state of the storage at most one row of
\* location_zones has is_active = 1.
C1_AtMostOneActiveZone == NumActive(db.location_zones) <= 1

\* C2: the attendance table never holds two rows with the same user_id and
\* the same date.
C2_OneRecordPerIdentityAndDay ==
    \A r1 \in db.attendance, r2 \in db.attendance :
        (r1.user_id = r2.user_id /\ r1.date = r2.date) => r1 = r2

\* attempts that have returned after their INSERT for identity u and date d
ReturnedFor(u, d) ==
    {t \in Sessions : /\ pc[t] = "idle"
                      /\ outcome[t] \in {"Success", "PersistenceFailure"}
                      /\ loc[t].user_id = u /\ loc[t].mark_date = d}

\* an INSERT for identity u and date d that its session has yet to commit
AwaitsCommit(u, d) ==
    \E t \in Sessions :
        pc[t] = "commit_attendance" /\ loc[t].user_id = u /\ loc[t].mark_date = d

\* C3: of the admission attempts that passed the duplicate check for one
\* identity and date and went on to the INSERT, exactly one commits a
\* record: whenever such an attempt has returned (as the winner or as the
\* loser) the connection holds exactly one record for that identity and
\* date, that record is committed as soon as no INSERT for it awaits its
\* commit, and at most one attempt reports success.
C3_ExactlyOneCommitted ==
    \A s \in Sessions :
        (pc[s] = "idle" /\ outcome[s] \in {"Success", "PersistenceFailure"}) =>
            LET u == loc[s].user_id
                d == loc[s].mark_date
            IN /\ Cardinality(AttendanceOf(tx, u, d)) = 1
               /\ ~AwaitsCommit(u, d) => Cardinality(AttendanceOf(db, u, d)) = 1
               /\ Cardinality({t \in ReturnedFor(u, d) : outcome[t] = "Success"}) <= 1

\* two attempts for one identity and date both reached the INSERT; one won
C3_Witness ==
    \E s \in Sessions, t \in Sessions :
        /\ s # t /\ pc[s] = "idle" /\ pc[t] = "idle"
        /\ outcome[s] = "Success" /\ outcome[t] = "PersistenceFailure"
        /\ loc[s].user_id = loc[t].user_id /\ loc[s].mark_date = loc[t].mark_date
        /\ Cardinality(AttendanceOf(db, loc[s].user_id, loc[s].mark_date)) = 1

\* C4: an INSERT of mark_attendance that the UNIQUE(user_id, date)
\* constraint rejects ends the attempt as AlreadyRecorded.
C4_ConflictIsAlreadyRecorded ==
    [][\A s \in Sessions :
          (Leaves(s, "insert_attendance") /\ ~AttendanceUniqueOK(tx, loc[s].user_id, day))
              => outcome'[s] = "AlreadyRecorded"]_vars

\* C5: when an activation of an existing zone B returns while zone A was
\* the committed active zone, B is the one active zone; when create_zone
\* with set_active returns, the created zone is the one active zone.
C5_ActivationIsExclusive ==
    [][\A s \in Sessions :
          /\ (/\ Leaves(s, "az_commit")
              /\ loc[s].zone_id \in 1..Len(tx.location_zones)
              /\ NumActive(db.location_zones) = 1)
                 => ActiveIds(db'.location_zones) = {loc[s].zone_id}
          /\ (/\ Leaves(s, "cz_commit")
              /\ loc[s].new_zone.is_active = 1
              /\ NumActive(db.location_zones) = 1)
                 => /\ NumActive(db'.location_zones) = 1
                    /\ \A i \in ActiveIds(db'.location_zones) :
                          db'.location_zones[i] = loc[s].new_zone]_vars

\* another session is between the statements of an activation
Activating(s) ==
    \E t \in Sessions \ {s} :
        \/ pc[t] \in {"az_activate", "az_commit"}
        \/ pc[t] \in {"cz_insert", "cz_commit"} /\ loc[t].new_zone.is_active = 1

\* C6: a page rendered while another session's activation is in progress,
\* the committed state holding one active zone, never shows "No Active Zone".
C6_ReadersSeeNoIntermediateState ==
    [][\A s \in Sessions :
          (shown'[s] # shown[s] /\ Activating(s) /\ NumActive(db.location_zones) = 1)
              => shown'[s] # NoZone]_vars

\* C7: activate_zone with an id that matches no row reports failure and
\* commits no change of any zone's active flag.
C7_ActivateUnknownZoneFails ==
    [][\A s \in Sessions :
          (Leaves(s, "az_commit") /\ loc[s].zone_id \notin 1..Len(tx.location_zones))
              => /\ outcome'[s] = "False"
                 /\ ActiveIds(db'.location_zones) = ActiveIds(db.location_zones)]_vars

\* C8: create_zone with set_active and a geometry the CHECK constraints
\* reject reports failure, creates no zone, and leaves the connection with
\* the activation state that was committed.
C8_InvalidGeometryChangesNothing ==
    [][\A s \in Sessions :
          (Leaves(s, "cz_insert") /\ ~ZoneChecksOK(loc[s].new_zone))
              => /\ outcome'[s] = "False"
                 /\ Len(tx'.location_zones) = Len(tx.location_zones)
                 /\ ActiveIds(tx'.location_zones) = ActiveIds(db.location_zones)]_vars

\* C9: an attempt that found no identity for its name always leaves the
\* resolution holding the id of the identity with that name, also when
\* another session inserted that identity first.
C9_ResolutionReusesWinner ==
    [][\A s \in Sessions :
          Leaves(s, "insert_user")
              => /\ pc'[s] \in {"commit_user", "dup_check"}
                 /\ loc'[s].user_id = UserIdOf(tx'.users, loc[s].sanitized_name)]_vars

\* C10: an admission attempt that returns without success has created no
\* identity.
C10_FailedAttemptCreatesNothing ==
    [][\A s \in Sessions :
          (pc[s] # "idle" /\ pc'[s] = "idle" /\ loc[s].op = "attend"
             /\ outcome'[s] # "Success")
              => ~loc[s].created]_vars

\* the rejections of the stages that run before any database statement
StageFailures ==
    {"NoActiveZone", "InvalidName", "InvalidImage", "NoLocation", "StaleLocation",
     "OutOfRange", "OutsideWindow"}

\* session s presses "Mark My Attendance": the stages pass, or one rejects
Pressed(s) ==
    /\ pc[s] = "idle"
    /\ \/ pc'[s] = "select_user"
       \/ /\ pc'[s] = "idle"
          /\ outcome'[s] \in StageFailures
          /\ (outcome'[s] # outcome[s] \/ loc'[s] # loc[s])

\* the window session s is checked against, as the claims state it
OpensAt(s) == IF window[s] = <<>> THEN time(8, 0) ELSE window[s][1]
ClosesAt(s) == IF window[s] = <<>> THEN time(18, 0) ELSE window[s][2]

\* what the attempt held in l is to report when its stages run in the order
\* name, image, active zone, location, freshness, proximity, time window
ClaimedFailure(s, l) ==
    IF l.sanitized_name = None THEN "InvalidName"
    ELSE IF ~l.img_ok THEN "InvalidImage"
    ELSE IF l.active_zone = NoZone THEN "NoActiveZone"
    ELSE IF ~l.has_location THEN "NoLocation"
    ELSE IF LocationExpired(l.age) THEN "StaleLocation"
    ELSE IF l.distance > tx.location_zones[l.active_zone].radius_meters * 100
         THEN "OutOfRange"
    ELSE IF ~(OpensAt(s) <= l.time /\ l.time <= ClosesAt(s)) THEN "OutsideWindow"
    ELSE "ok"

\* C11: the failure reported for an attempt is the one of the earliest
\* stage that fails in the order name validation, image validation, active
\* zone lookup, location freshness, proximity, time window; an attempt that
\* fails none of them goes on to the identity resolution.
C11_EarliestStageReported ==
    [][\A s \in Sessions :
          Pressed(s) =>
              IF ClaimedFailure(s, loc'[s]) = "ok" THEN pc'[s] = "select_user"
              ELSE pc'[s] = "idle" /\ outcome'[s] = ClaimedFailure(s, loc'[s])]_vars

\* C12: an attempt made while the connection shows no active zone is
\* rejected with NoActiveZone whatever else it holds, and changes nothing
\* in the database.
C12_NoActiveZoneRejectsAll ==
    [][\A s \in Sessions :
          (Pressed(s) /\ NumActive(tx.location_zones) = 0)
              => /\ pc'[s] = "idle"
                 /\ outcome'[s] = "NoActiveZone"
                 /\ db' = db /\ tx' = tx]_vars

\* an otherwise valid attempt was rejected while no zone was active
C12_Witness ==
    \E s \in Sessions :
        /\ outcome[s] = "NoActiveZone" /\ pc[s] = "idle"
        /\ NumActive(db.location_zones) = 0 /\ NumActive(tx.location_zones) = 0
        /\ loc[s].sanitized_name # None /\ loc[s].img_ok /\ loc[s].has_location
        /\ loc[s].age = 0 /\ loc[s].time = time(9, 0)

\* the attempt held in l reaches the freshness check
ReachesFreshness(l) ==
    /\ l.active_zone # NoZone /\ l.sanitized_name # None /\ l.img_ok /\ l.has_location

\* C13: an attempt whose location reading is older than 5 minutes is
\* rejected with StaleLocation, whatever the age above 5 minutes is.
C13_StaleLocationRejected ==
    [][\A s \in Sessions :
          (Pressed(s) /\ ReachesFreshness(loc'[s]) /\ loc'[s].age > 5 * 60)
              => pc'[s] = "idle" /\ outcome'[s] = "StaleLocation"]_vars

\* C14: an attempt that reaches the proximity stage passes it exactly when
\* its distance is at most the radius of the active zone; otherwise it is
\* rejected with OutOfRange and the distance shown is the computed one.
C14_ProximityExact ==
    [][\A s \in Sessions :
          (Pressed(s) /\ ReachesFreshness(loc'[s]) /\ ~LocationExpired(loc'[s].age))
              => LET l == loc'[s]
                     radius == tx.location_zones[l.active_zone].radius_meters * 100
                 IN IF l.distance <= radius
                    THEN outcome'[s] # "OutOfRange"
                    ELSE /\ outcome'[s] = "OutOfRange"
                         /\ l.shown_distance * 10 = l.distance]_vars

\* C15: an attempt that reaches its duplicate check while a record of its
\* identity for today is committed ends as AlreadyRecorded with the time of
\* that record, and changes neither the records nor the audit trail.
C15_SecondAttemptAlreadyRecorded ==
    [][\A s \in Sessions :
          Leaves(s, "dup_check") =>
              \A r \in db.attendance :
                  (r.user_id = loc[s].user_id /\ r.date = day)
                      => /\ pc'[s] = "idle"
                         /\ outcome'[s] = "AlreadyRecorded"
                         /\ loc'[s].existing_time = r.time
                         /\ db' = db /\ tx' = tx]_vars

\* the warning shows 08:00, the time of the committed record
C15_Witness ==
    \E s \in Sessions :
        /\ pc[s] = "idle" /\ outcome[s] = "AlreadyRecorded"
        /\ loc[s].existing_time = time(8, 0)
        /\ \E r \in db.attendance : r.date = day /\ r.time = time(8, 0)
        /\ Cardinality(db.attendance) = Cardinality(db.attendance_logs)

\* C16: every committed record has exactly one CREATE entry of the audit
\* trail, which records the status Present, and every CREATE entry has its
\* record: neither is ever seen without the other.
C16_RecordAndCreateEntryTogether ==
    /\ \A r \in db.attendance :
          /\ Cardinality({e \in db.attendance_logs :
                             e.action = "CREATE" /\ e.attendance_id = r.id}) = 1
          /\ \A e \in db.attendance_logs :
                (e.action = "CREATE" /\ e.attendance_id = r.id)
                    => e.new_values.status = "Present"
    /\ \A e \in db.attendance_logs :
          e.action = "CREATE" => \E r \in db.attendance : r.id = e.attendance_id

\* an attempt of session s that reaches the time window stage
ReachesWindow(l) ==
    /\ ReachesFreshness(l)
    /\ l.age % 86400 <= 5 * 60
    /\ l.distance <= tx.location_zones[l.active_zone].radius_meters * 100

\* C17: an attempt that reaches the time window stage passes it exactly
\* when its time of day is between the opening and the closing time of its
\* session, both included (08:00 and 18:00 unless configured); otherwise it
\* ends as OutsideWindow and nothing is written.
C17_WindowInclusive ==
    [][\A s \in Sessions :
          (Pressed(s) /\ ReachesWindow(loc'[s]))
              => IF OpensAt(s) <= loc'[s].time /\ loc'[s].time <= ClosesAt(s)
                 THEN pc'[s] = "select_user"
                 ELSE /\ pc'[s] = "idle" /\ outcome'[s] = "OutsideWindow"
                      /\ db' = db /\ tx' = tx]_vars

\* a record admitted at 18:00:00 and an attempt rejected at 18:00:01
C17_Witness ==
    \E s \in Sessions :
        /\ pc[s] = "idle" /\ outcome[s] = "OutsideWindow"
        /\ loc[s].time = time(18, 0) + 1
        /\ window[s] = <<>>
        /\ \E r \in db.attendance : r.time = time(18, 0)

\* C18: every change of the status, notes or verified_by of a record
\* appends exactly one UPDATE entry to the audit trail, holding the values
\* of exactly these three fields before and after the change.
C18_OneUpdateEntryPerMutation ==
    [][\A old \in db.attendance, new \in db'.attendance :
          (old.id = new.id /\ old # new)
              => LET added == db'.attendance_logs \ db.attendance_logs IN
                 /\ Cardinality(added) = 1
                 /\ \A e \in added :
                       /\ e.action = "UPDATE" /\ e.attendance_id = old.id
                       /\ e.old_values = [status |-> old.status, notes |-> old.notes,
                                          verified_by |-> old.verified_by]
                       /\ e.new_values = [status |-> new.status, notes |-> new.notes,
                                          verified_by |-> new.verified_by]]_vars

C20_PresentPlusAbsentIsTotal ==
    \A s \in Sessions :
        stats[s].returned
            => stats[s].result.present + stats[s].result.absent = stats[s].result.total

\* a result computed from the tables of db.py while an admission commits
\* between its two statements: nobody counted, one present, absent -1
C20_Witness ==
    \E s \in Sessions :
        /\ stats[s].returned
        /\ stats[s].result.total = 0
        /\ stats[s].result.present = 1
        /\ stats[s].result.absent = -1
        /\ stats[s].date_str = day

\* C21: sanitize_name is idempotent: applied to a name it has accepted and
\* returned, it accepts it and returns it unchanged.
C21_SanitizeIdempotent ==
    Len(san.results) = 2 => /\ san.results[2] # None
                            /\ san.results[2] = san.results[1]

\* C22: a configured window whose end time is not after its start time
\* does not make attempts fail with OutsideWindow.
C22_BadWindowRejectsNoAttempt ==
    [][\A s \in Sessions :
          (/\ Pressed(s) /\ ReachesWindow(loc'[s])
           /\ window[s] # <<>>
           /\ ClosesAt(s) <= OpensAt(s))
              => outcome'[s] # "OutsideWindow"]_vars

\* C26: a session that holds a location holds the location_timestamp set
\* at the capture of that location, so an attempt on a held location whose
\* age the freshness check finds above 5 minutes is always rejected.
C26_LocationHasItsTimestamp ==
    [][\A s \in Sessions :
          /\ geo'[s].location # 0 => geo'[s].location_timestamp = geo'[s].location
          /\ (Pressed(s) /\ ReachesFreshness(loc'[s]) /\ loc'[s].age % 86400 > 5 * 60)
                => outcome'[s] = "StaleLocation"]_vars

\* after an admission, a stale attempt on day 1 and a new capture on day 2
C26_Witness ==
    \E s \in Sessions :
        /\ geo[s].location = 2 /\ geo[s].location_timestamp = 2
        /\ outcome[s] = "StaleLocation"
        /\ db.attendance # {}

\* the statements of an admission attempt
AttemptStatements ==
    {"select_user", "insert_user", "commit_user", "dup_check", "insert_attendance",
     "commit_attendance"}

\* the attempt of session s returns in this step
AttemptReturns(s) ==
    /\ pc'[s] = "idle"
    /\ Pressed(s) \/ pc[s] \in AttemptStatements

\* C27: an attempt that succeeds leaves its session without location and
\* timestamp, an attempt that fails leaves both as they were, and a record
\* is only ever inserted by a session that holds a location.
C27_SuccessClearsLocation ==
    [][\A s \in Sessions :
          /\ AttemptReturns(s) =>
                IF outcome'[s] = "Success"
                THEN geo'[s].location = 0 /\ geo'[s].location_timestamp = 0
                ELSE geo'[s] = geo[s]
          /\ (pc[s] = "insert_attendance" /\ pc'[s] = "commit_attendance")
                => geo[s].location # 0]_vars

\* one session has succeeded and holds nothing, the other has failed and
\* holds its location
C27_Witness ==
    \E s \in Sessions, t \in Sessions :
        /\ outcome[s] = "Success" /\ pc[s] = "idle"
        /\ geo[s].location = 0 /\ geo[s].location_timestamp = 0
        /\ outcome[t] = "AlreadyRecorded" /\ pc[t] = "idle"
        /\ geo[t].location # 0 /\ geo[t].location_timestamp = geo[t].location

\* the zone a lookup returned is right for the table the connection sees
LookupRight(zone) ==
    LET zones == tx.location_zones
        active == {i \in 1..Len(zones) : zones[i].is_active = 1}
    IN IF active = {} THEN zone = 0
       ELSE /\ zone \in active
            /\ \A j \in active : zones[j].updated_at <= zones[zone].updated_at

\* C23: get_active_location_zone returns None exactly when no zone is
\* active, and otherwise an active zone with the greatest updated_at of the
\* active ones (in the page header, whenever what it shows changes, and at
\* every press of the attendance button).
C23_LookupReturnsLatestActive ==
    [][\A s \in Sessions :
          /\ shown'[s] # shown[s] => LookupRight(shown'[s])
          /\ Pressed(s) => LookupRight(loc'[s].active_zone)]_vars

\* two zones are active, the sample zone updated on day 2 and the campus
\* zone on day 1; the header shows the sample zone
C23_Witness ==
    \E s \in Sessions :
        /\ shown[s] = 2
        /\ tx.location_zones[1].is_active = 1 /\ tx.location_zones[2].is_active = 1
        /\ tx.location_zones[1].updated_at = 1 /\ tx.location_zones[2].updated_at = 2

\* C24: the zone_id of a record of the admission pipeline is, at the step
\* that commits the record, the id of an active zone.
C24_RecordZoneActiveAtCommit ==
    [][\A r \in db'.attendance \ db.attendance :
          r.zone_id # 0 => db'.location_zones[r.zone_id].is_active = 1]_vars

\* C25: every committed record that names a zone has a distance that is
\* not negative and not above the radius of that zone.
C25_RecordWithinItsZone ==
    \A r \in db.attendance :
        r.zone_id # 0 =>
            /\ r.distance_meters >= 0
            /\ r.distance_meters <= db.location_zones[r.zone_id].radius_meters * 100

\* a record admitted at 5500 m from the campus zone, whose radius is 5500 m
C25_Witness ==
    \E r \in db.attendance :
        /\ r.zone_id = 1 /\ r.distance_meters = 550000
        /\ db.location_zones[1].radius_meters = 5500

\* C28: the record an attempt inserts has the date its duplicate check was
\* made for and a time within the window the attempt was checked against.
C28_RecordAgreesWithChecks ==
    [][\A s \in Sessions :
          (pc[s] = "insert_attendance" /\ pc'[s] = "commit_attendance")
              => \A r \in tx'.attendance \ tx.attendance :
                    /\ r.date = loc[s].today
                    /\ OpensAt(s) <= r.time /\ r.time <= ClosesAt(s)]_vars

\* C29: setting the window in one session leaves the window of every other
\* session as it was, and an attempt of a session that has set no window is
\* checked against 08:00-18:00 whatever the other sessions have set.
C29_WindowIsPerSession ==
    [][\A s \in Sessions :
          /\ window'[s] # window[s]
                => \A t \in Sessions \ {s} : window'[t] = window[t]
          /\ (Pressed(s) /\ ReachesWindow(loc'[s]) /\ window[s] = <<>>)
                => (pc'[s] = "select_user"
                      <=> (time(8, 0) <= loc'[s].time /\ loc'[s].time <= time(18, 0)))]_vars

\* a session without a window of its own has been admitted at 08:00 while
\* the other session holds the window 09:00-09:00
C29_Witness ==
    \E s \in Sessions, t \in Sessions :
        /\ window[s] = <<>> /\ window[t] = <<time(9, 0), time(9, 0)>>
        /\ outcome[s] = "Success"
        /\ \E r \in db.attendance : r.time = time(8, 0)

\* C30: every result get_attendance_stats returns has
\* 0 <= present <= total, absent >= 0 and a rate between 0 and 100.
C30_StatsWithinRange ==
    \A s \in Sessions :
        stats[s].returned =>
            LET r == stats[s].result IN
            /\ 0 <= r.present /\ r.present <= r.total
            /\ r.absent >= 0
            /\ 0 <= r.rate[1] /\ r.rate[1] <= 100 * r.rate[2]

====
